---- MODULE Spec2Model ----
(***************************************************************************)
(* Model of scripts/generate_garaga_calldata.py: one invocation of main()  *)
(* is a linear pipeline (argument check, parse VK, parse proof, generate   *)
(* calldata, shape the result, write it).  The file system outlives a      *)
(* process, so the model lets a second invocation follow the first one.    *)
(* Text is a sequence of string pieces; a stream is a sequence of lines.   *)
(***************************************************************************)
EXTENDS Integers, Sequences, FiniteSets, TLC

VARIABLES argv, fs, disk, stdout, stderr, status, pc,
          proof_path, vk_path, output_path, vk, proof, calldata, result,
          io, run, mode, prev, fs0

vars == <<argv, fs, disk, stdout, stderr, status, pc,
          proof_path, vk_path, output_path, vk, proof, calldata, result,
          io, run, mode, prev, fs0>>

locals == <<proof_path, vk_path, output_path, vk, proof, calldata, result>>
world == <<argv, fs, disk, run, mode, prev, fs0>>

\* ---------------------------------------------------------------- bounds
\* largest number of positional arguments on a command line
MaxArgs == 4

\* ------------------------------------------------------- the environment
Prog == "generate_garaga_calldata.py"
Files == {"p.json", "v.json", "o.json"}
InputPaths == {"p.json", "v.json"}
OutputArgs == Files \cup {""}
ExtraArgs == {"extra"}

VkBN == <<"vk", "CurveID.BN254", "ic", "ic", "ic">>
VkBLS == <<"vk", "CurveID.BLS12_381", "ic", "ic">>
ProofBN == <<"proof", "CurveID.BN254">>
ProofBLS == <<"proof", "CurveID.BLS12_381">>
Garbage == <<"not json">>
Old == <<"old content">>
NoFile == <<>>

ArgChoices(i) == IF i <= 2 THEN InputPaths
                 ELSE IF i = 3 THEN OutputArgs ELSE ExtraArgs

ArgLists == UNION { { s \in [1..n -> InputPaths \cup OutputArgs \cup ExtraArgs] :
                        \A i \in 1..n : s[i] \in ArgChoices(i) } : n \in 0..MaxArgs }

InitialFiles ==
  { [p \in {q \in Files : c[q] # NoFile} |-> c[p]] :
      c \in { d \in [Files -> {NoFile, VkBN, VkBLS, ProofBN, ProofBLS, Garbage, Old}] :
                /\ d["p.json"] \in {NoFile, ProofBN, ProofBLS, Garbage}
                /\ d["v.json"] \in {NoFile, VkBN, VkBLS, Garbage}
                /\ d["o.json"] \in {NoFile, Old} } }

\* ------------------------------------------------------- pure functions
Digit(d) == CASE d = 0 -> "0" [] d = 1 -> "1" [] d = 2 -> "2" [] d = 3 -> "3"
              [] d = 4 -> "4" [] d = 5 -> "5" [] d = 6 -> "6" [] d = 7 -> "7"
              [] d = 8 -> "8" [] d = 9 -> "9"

RECURSIVE NatStr(_)
NatStr(n) == IF n < 10 THEN <<Digit(n)>>
             ELSE Append(NatStr(n \div 10), Digit(n % 10))

\* mutant of ToStr: the sign is dropped
ToStr_NoSign(n) == IF n < 0 THEN NatStr(0 - n) ELSE NatStr(n)

\* str(x) of a Python int
ToStr(n) == IF n < 0 THEN <<"-">> \o NatStr(0 - n) ELSE NatStr(n)

\* len(sys.argv) and sys.argv[i]; argv[1] is the script name
ArgCount == Len(argv)
Arg(i) == argv[i + 1]

\* truthiness of output_path: None and "" are both false
Truthy(op) == op # <<>> /\ op[1] # ""

\* the library's parsers: read the file, raise unless it holds the right thing
Readable(path) == path \in DOMAIN fs
IsVK(text) == Len(text) >= 2 /\ text[1] = "vk"
IsProof(text) == Len(text) = 2 /\ text[1] = "proof"
VKFromJson(path) == Tail(fs[path])
ProofFromJson(path) == Tail(fs[path])
CurveId(v) == v[1]
IC(v) == Tail(v)

\* the library's calldata function: raises on a curve mismatch
CalldataRaises(v, p) == CurveId(v) # CurveId(p)
Groth16Calldata(v, p) == IF CurveId(v) = "CurveID.BN254"
                         THEN <<3, 0, 1205, 17>>
                         ELSE <<2, 0 - 41, 9>>

\* json.dumps(result) with the default separators
RECURSIVE JsonItems(_)
JsonItems(items) ==
  IF items = <<>> THEN <<>>
  ELSE IF Len(items) = 1 THEN <<"\"">> \o items[1] \o <<"\"">>
  ELSE <<"\"">> \o items[1] \o <<"\"", ", ">> \o JsonItems(Tail(items))

JsonDumps(r) == <<"{", "\"calldata\"", ": ", "[">> \o JsonItems(r.calldata)
                \o <<"]", ", ", "\"length\"", ": ">> \o ToStr(r.length) \o <<"}">>

\* lines of text
UsageLine == <<"Usage: python3 generate_garaga_calldata.py <proof_json> <vk_json> [output_json]">>
VKLoadedLine(v) == <<"VK loaded: curve=", CurveId(v), ", IC length=">> \o ToStr(Len(IC(v)))
ProofLoadedLine(p) == <<"Proof loaded: curve=", CurveId(p)>>
GeneratedLine(c) == <<"Calldata generated: ">> \o ToStr(Len(c)) \o <<" elements">>
WrittenLine(path) == <<"Calldata written to ", path>>
Traceback(site) == <<"Traceback (most recent call last):", site>>

WriteFile(f, path, text) == [p \in DOMAIN f \cup {path} |-> IF p = path THEN text ELSE f[p]]

NoResult == [calldata |-> <<>>, length |-> 0]

\* ------------------------------------------------------------------ Init
Init ==
  /\ argv \in { <<Prog>> \o a : a \in ArgLists }
  /\ fs \in InitialFiles
  /\ disk \in {"ok", "readonly", "full"}
  /\ fs0 = fs
  /\ stdout = <<>> /\ stderr = <<>> /\ status = <<>>
  /\ pc = "main"
  /\ proof_path = "" /\ vk_path = "" /\ output_path = <<>>
  /\ vk = <<>> /\ proof = <<>> /\ calldata = <<>> /\ result = NoResult
  /\ io = <<>>
  /\ run = 1 /\ mode = "first" /\ prev = <<>>

\* --------------------------------------------------------------- actions
\* an uncaught exception: traceback on stderr, exit status 1
Raise(site) ==
  /\ stderr' = Append(stderr, Traceback(site))
  /\ status' = <<1>>
  /\ pc' = "exit"

\* mutant of CheckArgs: the usage text goes to standard error
CheckArgs_UsageToStderr ==
  /\ pc = "main"
  /\ IF ArgCount < 3
     THEN /\ stderr' = Append(stderr, UsageLine)
          /\ status' = <<1>>
          /\ pc' = "exit"
          /\ UNCHANGED <<proof_path, vk_path, output_path, stdout>>
     ELSE /\ proof_path' = Arg(1)
          /\ vk_path' = Arg(2)
          /\ output_path' = IF ArgCount > 3 THEN <<Arg(3)>> ELSE <<>>
          /\ pc' = "parse_vk"
          /\ UNCHANGED <<stdout, stderr, status>>
  /\ UNCHANGED <<vk, proof, calldata, result, io, world>>

\* mutant of CheckArgs: the two required arguments are taken in the other order
CheckArgs_Swapped ==
  /\ pc = "main"
  /\ IF ArgCount < 3
     THEN /\ stdout' = Append(stdout, UsageLine)
          /\ status' = <<1>>
          /\ pc' = "exit"
          /\ UNCHANGED <<proof_path, vk_path, output_path>>
     ELSE /\ proof_path' = Arg(2)
          /\ vk_path' = Arg(1)
          /\ output_path' = IF ArgCount > 3 THEN <<Arg(3)>> ELSE <<>>
          /\ pc' = "parse_vk"
          /\ UNCHANGED <<stdout, status>>
  /\ UNCHANGED <<stderr, vk, proof, calldata, result, io, world>>

\* mutant of CheckArgs: any argument count other than 2 or 3 is a usage error
CheckArgs_Strict ==
  /\ pc = "main"
  /\ IF ArgCount < 3 \/ ArgCount > 4
     THEN /\ stdout' = Append(stdout, UsageLine)
          /\ status' = <<1>>
          /\ pc' = "exit"
          /\ UNCHANGED <<proof_path, vk_path, output_path>>
     ELSE /\ proof_path' = Arg(1)
          /\ vk_path' = Arg(2)
          /\ output_path' = IF ArgCount > 3 THEN <<Arg(3)>> ELSE <<>>
          /\ pc' = "parse_vk"
          /\ UNCHANGED <<stdout, status>>
  /\ UNCHANGED <<stderr, vk, proof, calldata, result, io, world>>

\* lines 30-36
CheckArgs ==
  /\ pc = "main"
  /\ IF ArgCount < 3
     THEN /\ stdout' = Append(stdout, UsageLine)
          /\ status' = <<1>>
          /\ pc' = "exit"
          /\ UNCHANGED <<proof_path, vk_path, output_path>>
     ELSE /\ proof_path' = Arg(1)
          /\ vk_path' = Arg(2)
          /\ output_path' = IF ArgCount > 3 THEN <<Arg(3)>> ELSE <<>>
          /\ pc' = "parse_vk"
          /\ UNCHANGED <<stdout, status>>
  /\ UNCHANGED <<stderr, vk, proof, calldata, result, io, world>>

\* mutant of ParseVK: the diagnostic line goes to standard output
ParseVK_ToStdout ==
  /\ pc = "parse_vk"
  /\ io' = Append(io, <<"read", vk_path>>)
  /\ IF Readable(vk_path) /\ IsVK(fs[vk_path])
     THEN /\ vk' = VKFromJson(vk_path)
          /\ stdout' = Append(stdout, VKLoadedLine(vk'))
          /\ pc' = "parse_proof"
          /\ UNCHANGED <<status, stderr>>
     ELSE /\ Raise("Groth16VerifyingKey.from_json")
          /\ UNCHANGED <<vk, stdout>>
  /\ UNCHANGED <<proof_path, vk_path, output_path, proof, calldata, result, world>>

\* lines 39-40
ParseVK ==
  /\ pc = "parse_vk"
  /\ io' = Append(io, <<"read", vk_path>>)
  /\ IF Readable(vk_path) /\ IsVK(fs[vk_path])
     THEN /\ vk' = VKFromJson(vk_path)
          /\ stderr' = Append(stderr, VKLoadedLine(vk'))
          /\ pc' = "parse_proof"
          /\ UNCHANGED status
     ELSE /\ Raise("Groth16VerifyingKey.from_json")
          /\ UNCHANGED vk
  /\ UNCHANGED <<stdout, proof_path, vk_path, output_path, proof, calldata, result, world>>

\* lines 43-44
ParseProof ==
  /\ pc = "parse_proof"
  /\ io' = Append(io, <<"read", proof_path>>)
  /\ IF Readable(proof_path) /\ IsProof(fs[proof_path])
     THEN /\ proof' = ProofFromJson(proof_path)
          /\ stderr' = Append(stderr, ProofLoadedLine(proof'))
          /\ pc' = "calldata"
          /\ UNCHANGED status
     ELSE /\ Raise("Groth16Proof.from_json")
          /\ UNCHANGED proof
  /\ UNCHANGED <<stdout, proof_path, vk_path, output_path, vk, calldata, result, world>>

\* mutant of GenCalldata: a failure of the library is swallowed and the run goes on
GenCalldata_Swallow ==
  /\ pc = "calldata"
  /\ io' = Append(io, <<"call", "groth16_calldata_from_vk_and_proof">>)
  /\ calldata' = IF CalldataRaises(vk, proof) THEN <<0>> ELSE Groth16Calldata(vk, proof)
  /\ stderr' = Append(stderr, GeneratedLine(calldata'))
  /\ pc' = "result"
  /\ UNCHANGED <<status, stdout, proof_path, vk_path, output_path, vk, proof, result, world>>

\* mutant of GenCalldata: the diagnostic line goes to standard output
GenCalldata_ToStdout ==
  /\ pc = "calldata"
  /\ io' = Append(io, <<"call", "groth16_calldata_from_vk_and_proof">>)
  /\ IF CalldataRaises(vk, proof)
     THEN /\ Raise("groth16_calldata_from_vk_and_proof")
          /\ UNCHANGED <<calldata, stdout>>
     ELSE /\ calldata' = Groth16Calldata(vk, proof)
          /\ stdout' = Append(stdout, GeneratedLine(calldata'))
          /\ pc' = "result"
          /\ UNCHANGED <<status, stderr>>
  /\ UNCHANGED <<proof_path, vk_path, output_path, vk, proof, result, world>>

\* lines 47-48
GenCalldata ==
  /\ pc = "calldata"
  /\ io' = Append(io, <<"call", "groth16_calldata_from_vk_and_proof">>)
  /\ IF CalldataRaises(vk, proof)
     THEN /\ Raise("groth16_calldata_from_vk_and_proof")
          /\ UNCHANGED calldata
     ELSE /\ calldata' = Groth16Calldata(vk, proof)
          /\ stderr' = Append(stderr, GeneratedLine(calldata'))
          /\ pc' = "result"
          /\ UNCHANGED status
  /\ UNCHANGED <<stdout, proof_path, vk_path, output_path, vk, proof, result, world>>

\* lines 51-54
BuildResult ==
  /\ pc = "result"
  /\ result' = [calldata |-> [i \in 1..Len(calldata) |-> ToStr(calldata[i])],
                length |-> Len(calldata)]
  /\ pc' = "output"
  /\ UNCHANGED <<stdout, stderr, status, proof_path, vk_path, output_path,
                 vk, proof, calldata, io, world>>

\* mutant of Output: without an output path the JSON goes to standard error
Output_JsonToStderr ==
  /\ pc = "output"
  /\ IF Truthy(output_path)
     THEN /\ io' = Append(io, <<"open", output_path[1]>>)
          /\ IF disk = "readonly"
             THEN /\ Raise("open")
                  /\ UNCHANGED fs
             ELSE /\ fs' = WriteFile(fs, output_path[1], <<>>)
                  /\ pc' = "dump"
                  /\ UNCHANGED <<stderr, status>>
     ELSE /\ stderr' = Append(stderr, JsonDumps(result))
          /\ status' = <<0>>
          /\ pc' = "exit"
          /\ UNCHANGED <<fs, io>>
  /\ UNCHANGED <<stdout, locals, argv, disk, run, mode, prev, fs0>>

\* mutant of Output: the file is opened for appending, not truncated
Output_AppendMode ==
  /\ pc = "output"
  /\ IF Truthy(output_path)
     THEN /\ io' = Append(io, <<"open", output_path[1]>>)
          /\ IF disk = "readonly"
             THEN /\ Raise("open")
                  /\ UNCHANGED fs
             ELSE /\ fs' = IF output_path[1] \in DOMAIN fs THEN fs
                            ELSE WriteFile(fs, output_path[1], <<>>)
                  /\ pc' = "dump"
                  /\ UNCHANGED <<stderr, status>>
          /\ UNCHANGED stdout
     ELSE /\ stdout' = Append(stdout, JsonDumps(result))
          /\ status' = <<0>>
          /\ pc' = "exit"
          /\ UNCHANGED <<stderr, fs, io>>
  /\ UNCHANGED <<locals, argv, disk, run, mode, prev, fs0>>

\* mutant of Output: the file is opened for exclusive creation
Output_ExclusiveCreate ==
  /\ pc = "output"
  /\ IF Truthy(output_path)
     THEN /\ io' = Append(io, <<"open", output_path[1]>>)
          /\ IF disk = "readonly" \/ output_path[1] \in DOMAIN fs
             THEN /\ Raise("open")
                  /\ UNCHANGED fs
             ELSE /\ fs' = WriteFile(fs, output_path[1], <<>>)
                  /\ pc' = "dump"
                  /\ UNCHANGED <<stderr, status>>
          /\ UNCHANGED stdout
     ELSE /\ stdout' = Append(stdout, JsonDumps(result))
          /\ status' = <<0>>
          /\ pc' = "exit"
          /\ UNCHANGED <<stderr, fs, io>>
  /\ UNCHANGED <<locals, argv, disk, run, mode, prev, fs0>>

\* lines 56-57 and 60-62: open the output file for writing, or print to stdout
Output ==
  /\ pc = "output"
  /\ IF Truthy(output_path)
     THEN /\ io' = Append(io, <<"open", output_path[1]>>)
          /\ IF disk = "readonly"
             THEN /\ Raise("open")
                  /\ UNCHANGED fs
             ELSE /\ fs' = WriteFile(fs, output_path[1], <<>>)
                  /\ pc' = "dump"
                  /\ UNCHANGED <<stderr, status>>
          /\ UNCHANGED stdout
     ELSE /\ stdout' = Append(stdout, JsonDumps(result))
          /\ status' = <<0>>
          /\ pc' = "exit"
          /\ UNCHANGED <<stderr, fs, io>>
  /\ UNCHANGED <<locals, argv, disk, run, mode, prev, fs0>>

\* line 58: the text goes after what the opened file holds (nothing, once truncated)
Dump ==
  /\ pc = "dump"
  /\ io' = Append(io, <<"write", output_path[1]>>)
  /\ IF disk = "full"
     THEN /\ Raise("json.dump")
          /\ UNCHANGED fs
     ELSE /\ fs' = WriteFile(fs, output_path[1], fs[output_path[1]] \o JsonDumps(result))
          /\ pc' = "confirm"
          /\ UNCHANGED <<stderr, status>>
  /\ UNCHANGED <<stdout, locals, argv, disk, run, mode, prev, fs0>>

\* line 59, then main returns
Confirm ==
  /\ pc = "confirm"
  /\ stderr' = Append(stderr, WrittenLine(output_path[1]))
  /\ status' = <<0>>
  /\ pc' = "exit"
  /\ UNCHANGED <<stdout, locals, io, world>>

Outcome == [argv |-> argv, status |-> status, stdout |-> stdout, stderr |-> stderr,
            calldata |-> calldata, result |-> result, io |-> io,
            output_path |-> output_path, fs |-> fs]

\* a fresh process: nothing but the file system survives
Fresh ==
  /\ stdout' = <<>> /\ stderr' = <<>> /\ status' = <<>>
  /\ pc' = "main"
  /\ proof_path' = "" /\ vk_path' = "" /\ output_path' = <<>>
  /\ vk' = <<>> /\ proof' = <<>> /\ calldata' = <<>> /\ result' = NoResult
  /\ io' = <<>>
  /\ run' = 2
  /\ prev' = <<Outcome>>

\* the same command line is run a second time on the files the first run left
Reinvoke ==
  /\ pc = "exit" /\ run = 1
  /\ Fresh
  /\ mode' = "repeat"
  /\ UNCHANGED <<argv, fs, disk, fs0>>

\* the command line cut after its third argument is run on the original files
InvokeTruncated ==
  /\ pc = "exit" /\ run = 1
  /\ ArgCount > 4
  /\ Fresh
  /\ mode' = "truncated"
  /\ argv' = SubSeq(argv, 1, 4)
  /\ fs' = fs0
  /\ UNCHANGED <<disk, fs0>>

Next == \/ CheckArgs \/ ParseVK \/ ParseProof \/ GenCalldata \/ BuildResult
        \/ Output \/ Dump \/ Confirm \/ Reinvoke \/ InvokeTruncated

Spec == Init /\ [][Next]_vars

\* ------------------------------------------------ vocabulary of the claims
Done == pc = "exit"
Succeeded == pc = "exit" /\ status = <<0>>
Failed == pc = "exit" /\ status # <<>> /\ status # <<0>>

\* the files as the current process found them
StartFS == IF mode = "repeat" THEN prev[1].fs ELSE fs0

\* the command line names a verifying key and a proof the library accepts
ValidPair ==
  /\ ArgCount >= 3
  /\ Arg(2) \in DOMAIN StartFS /\ IsVK(StartFS[Arg(2)])
  /\ Arg(1) \in DOMAIN StartFS /\ IsProof(StartFS[Arg(1)])
  /\ StartFS[Arg(2)][2] = StartFS[Arg(1)][2]

OutputGiven == ArgCount >= 4
Kinds(log) == [i \in 1..Len(log) |-> log[i][1]]
Opened == \E i \in 1..Len(io) : io[i][1] = "open"
InStream(stream, line) == \E i \in 1..Len(stream) : stream[i] = line
IsTraceback(line) == line # <<>> /\ line[1] = "Traceback (most recent call last):"
IsProgress(line) == line # <<>> /\ line[1] \in {"VK loaded: curve=", "Proof loaded: curve=",
                                                "Calldata generated: ", "Calldata written to "}
Last(s) == s[Len(s)]

\* an independent reader of the emitted JSON text
DigitChars == {"0", "1", "2", "3", "4", "5", "6", "7", "8", "9"}
DigitVal(c) == CHOOSE d \in 0..9 : Digit(d) = c
IsDecimal(s) == LET body == IF s # <<>> /\ s[1] = "-" THEN Tail(s) ELSE s
                IN body # <<>> /\ \A i \in 1..Len(body) : body[i] \in DigitChars
RECURSIVE NatVal(_)
NatVal(s) == IF s = <<>> THEN 0
             ELSE NatVal(SubSeq(s, 1, Len(s) - 1)) * 10 + DigitVal(s[Len(s)])
ParseInt(s) == IF s[1] = "-" THEN 0 - NatVal(Tail(s)) ELSE NatVal(s)
FirstIdx(t, tok) == CHOOSE i \in 1..Len(t) : t[i] = tok /\ \A j \in 1..(i - 1) : t[j] # tok
Quotes(t) == {i \in (FirstIdx(t, "[") + 1)..(FirstIdx(t, "]") - 1) : t[i] = "\""}
NthQuote(t, m) == CHOOSE i \in Quotes(t) : Cardinality({j \in Quotes(t) : j < i}) = m - 1
ItemsIn(t) == [k \in 1..(Cardinality(Quotes(t)) \div 2) |->
                 SubSeq(t, NthQuote(t, 2 * k - 1) + 1, NthQuote(t, 2 * k) - 1)]
LengthField(t) == ParseInt(SubSeq(t, FirstIdx(t, "\"length\"") + 2, Len(t) - 1))
IsJsonObject(t) == /\ Len(t) >= 9 /\ t[1] = "{" /\ Last(t) = "}"
                   /\ t[2] = "\"calldata\"" /\ InStream(t, "\"length\"")
Emitted == IF Truthy(output_path) THEN fs[output_path[1]] ELSE stdout[1]

\* ----------------------------------------------------------------- claims
\* C1: with fewer than 2 positional arguments the program prints the usage
\* text to standard output and exits with status 1 before any file I/O: no
\* file is read or written and the calldata function is never invoked.
C1_UsageBeforeIO ==
  (pc # "main" /\ ArgCount < 3) =>
     /\ pc = "exit" /\ status = <<1>>
     /\ stdout = <<UsageLine>>
     /\ io = <<>> /\ fs = StartFS

C1_Witness == pc = "exit" /\ ArgCount = 2 /\ stdout = <<UsageLine>> /\ run = 1

\* C2: on every successful run the emitted result object has a length field
\* equal to the number of calldata items, one item per element of the
\* library's sequence in the same order, each the decimal string of its
\* element (digits, optionally after a leading '-').
C2_ResultShape ==
  Succeeded =>
     /\ IsJsonObject(Emitted)
     /\ LengthField(Emitted) = Len(ItemsIn(Emitted))
     /\ Len(ItemsIn(Emitted)) = Len(calldata)
     /\ \A i \in 1..Len(calldata) :
          /\ IsDecimal(ItemsIn(Emitted)[i])
          /\ ParseInt(ItemsIn(Emitted)[i]) = calldata[i]

C2_Witness == Succeeded /\ Truthy(output_path) /\ \E i \in 1..Len(calldata) : calldata[i] < 0

\* C3: for a valid pair and exactly the two required arguments, the run
\* writes exactly one line, the result JSON, to standard output, writes no
\* file and exits with status 0.
C3_StdoutOnly ==
  (Done /\ ArgCount = 3 /\ ValidPair) =>
     /\ status = <<0>>
     /\ Len(stdout) = 1 /\ stdout[1] = JsonDumps(result) /\ IsJsonObject(stdout[1])
     /\ fs = StartFS /\ ~Opened

C3_Witness == Done /\ ArgCount = 3 /\ ValidPair /\ Len(stdout) = 1 /\ "o.json" \in DOMAIN fs

\* C4 as stated: for a valid pair and every value of the third argument the
\* result goes to the file at that path and not to standard output, the
\* file holds exactly the result, and the run exits with status 0.
C4_AsStated ==
  (Done /\ OutputGiven /\ ValidPair) =>
     /\ status = <<0>>
     /\ stdout = <<>>
     /\ Arg(3) \in DOMAIN fs /\ fs[Arg(3)] = JsonDumps(result)

\* C4 amended: for a valid pair and a non-empty third argument naming a file
\* that can be opened and written, the result goes to that file and not to
\* standard output, the previous content is fully replaced, the confirmation
\* is emitted after the write and the run exits with status 0.
C4_FileOutput ==
  /\ (Done /\ OutputGiven /\ Arg(3) # "" /\ disk = "ok" /\ ValidPair) =>
        /\ status = <<0>>
        /\ stdout = <<>>
        /\ fs = WriteFile(StartFS, Arg(3), JsonDumps(result))
        /\ IsJsonObject(fs[Arg(3)])
        /\ Last(stderr) = WrittenLine(Arg(3))
  /\ \A i \in 1..Len(stderr) :
        stderr[i][1] = "Calldata written to " =>
           /\ Last(io) = <<"write", stderr[i][2]>>
           /\ fs[stderr[i][2]] = JsonDumps(result)

C4_Witness == Done /\ OutputGiven /\ Arg(3) = "o.json" /\ ValidPair /\ disk = "ok"
              /\ "o.json" \in DOMAIN StartFS /\ StartFS["o.json"] = Old
              /\ fs["o.json"] = JsonDumps(result)

\* C5 as stated: on every failing run standard output is empty and the usage
\* text or failure trace is on standard error.
C5_AsStated ==
  Failed => /\ stdout = <<>>
            /\ \E i \in 1..Len(stderr) : stderr[i] = UsageLine \/ IsTraceback(stderr[i])

\* C5 amended: on a failing run other than a usage error standard output is
\* empty and the failure trace is the last thing on standard error; on a
\* usage error the usage text is on standard output and standard error is
\* empty.
C5_FailureStreams ==
  Failed => IF ArgCount < 3
            THEN stdout = <<UsageLine>> /\ stderr = <<>>
            ELSE stdout = <<>> /\ stderr # <<>> /\ IsTraceback(Last(stderr))

C5_Witness == Failed /\ ArgCount >= 3 /\ Len(stderr) >= 3 /\ IsTraceback(Last(stderr))

\* C6: when the verifying-key or proof file is missing or rejected by the
\* library, or calldata generation fails, the run exits non-zero, writes no
\* result to standard output and never opens the output path: no file is
\* created and an existing one keeps its content.
C6_NoOutputOnBadInput ==
  (Done /\ ArgCount >= 3 /\ ~ValidPair) =>
     /\ Failed
     /\ stdout = <<>>
     /\ ~Opened
     /\ fs = StartFS

C6_Witness == /\ Done /\ OutputGiven /\ Arg(3) = "o.json" /\ ~ValidPair
              /\ "o.json" \in DOMAIN fs /\ fs["o.json"] = Old
              /\ Arg(1) \notin DOMAIN fs /\ Len(stderr) = 2

\* C7 as stated: the progress diagnostics never reach standard output, which
\* in every run holds either nothing or only the result JSON.
C7_AsStated ==
  /\ \A i \in 1..Len(stdout) : ~IsProgress(stdout[i])
  /\ stdout = <<>> \/ stdout = <<JsonDumps(result)>>

\* C7 amended: the progress diagnostics are written only to standard error
\* and never to standard output, which holds nothing, only the usage text
\* (after a usage error) or only the result JSON.
C7_CleanStdout ==
  /\ \A i \in 1..Len(stdout) : ~IsProgress(stdout[i])
  /\ \/ stdout = <<>>
     \/ stdout = <<UsageLine>> /\ ArgCount < 3
     \/ stdout = <<JsonDumps(result)>> /\ Succeeded
  /\ Succeeded =>
        stderr = <<VKLoadedLine(vk), ProofLoadedLine(proof), GeneratedLine(calldata)>>
                 \o (IF Truthy(output_path) THEN <<WrittenLine(output_path[1])>> ELSE <<>>)

C7_Witness == Succeeded /\ stdout = <<JsonDumps(result)>> /\ Len(stderr) = 3
              /\ \A i \in 1..3 : IsProgress(stderr[i])

C9_PipelineOrder ==
  /\ \A i \in 1..Len(io) : Kinds(io)[i] = <<"read", "read", "call", "open", "write">>[i]
  /\ Len(io) <= 5
  /\ Len(io) >= 1 => io[1][2] = Arg(2)
  /\ Len(io) >= 2 => io[2][2] = Arg(1) /\ InStream(stderr, VKLoadedLine(Tail(StartFS[Arg(2)])))
  /\ Len(io) >= 3 => /\ stderr[2] = ProofLoadedLine(Tail(StartFS[Arg(1)]))
                     /\ vk = Tail(StartFS[Arg(2)]) /\ proof = Tail(StartFS[Arg(1)])
  /\ Len(io) >= 4 => calldata # <<>> /\ stderr[3] = GeneratedLine(calldata) /\ io[4][2] = Arg(3)
  /\ Len(io) >= 5 => io[5][2] = Arg(3)
  /\ (Done /\ ArgCount >= 3 /\ ~(Arg(2) \in DOMAIN StartFS /\ IsVK(StartFS[Arg(2)]))) =>
        /\ io = <<<<"read", Arg(2)>>>>
        /\ stderr = <<Traceback("Groth16VerifyingKey.from_json")>>

C9_Witness == Done /\ Len(io) = 5 /\ Arg(1) # Arg(2)

\* C10: more than 3 positional arguments is not a usage error; the extra
\* arguments are ignored and the run behaves as the invocation with only the
\* first three: same reads, same destination, same result, same exit status.
C10_ExtraArgsIgnored ==
  /\ (ArgCount > 4 /\ pc # "main") =>
        /\ ~InStream(stdout, UsageLine)
        /\ proof_path = Arg(1) /\ vk_path = Arg(2) /\ output_path = <<Arg(3)>>
  /\ (mode = "truncated" /\ Done) =>
        /\ Len(prev[1].argv) > 4 /\ argv = SubSeq(prev[1].argv, 1, 4)
        /\ status = prev[1].status
        /\ stdout = prev[1].stdout /\ stderr = prev[1].stderr
        /\ result = prev[1].result /\ calldata = prev[1].calldata
        /\ io = prev[1].io /\ output_path = prev[1].output_path
        /\ fs = prev[1].fs

C10_Witness == mode = "truncated" /\ Succeeded /\ Truthy(output_path) /\ fs # fs0

====
